---- MODULE Spec2Model ----
(***************************************************************************)
(* A model of pdf_to_webp.py: the name normalizer (to_snake_case), the     *)
(* thumbnail compositor (create_uniform_thumbnail) and the batch driver    *)
(* (main).  The compositor's ratio arithmetic is Python float arithmetic   *)
(* (IEEE-754 binary64, round to nearest even); it is modelled exactly, on  *)
(* arbitrary-precision naturals kept as little-endian sequences of limbs.  *)
(***************************************************************************)
EXTENDS Integers, Sequences, FiniteSets, TLC

(***************************************************************************)
(* Bounds of the model.                                                    *)
(***************************************************************************)
\* Largest width and height of a rasterized page in CompSpec.
MaxDim == 25
\* Largest width and height of the small pages of the batch run.
MaxPage == 1
\* Largest number of entries of the source directory.
MaxFiles == 2
\* Longest name given to to_snake_case in SnakeSpec.
MaxLen == 4

(***************************************************************************)
(* Program constants.                                                      *)
(***************************************************************************)
\* create_uniform_thumbnail's default target_width and target_height.
target_width == 400
target_height == 300
\* Significand width of a Python float (IEEE-754 binary64).
MantBits == 53
\* Width of one limb of a natural number; a limb product stays below 2^31.
LimbBits == 15
Base == 2 ^ LimbBits

(***************************************************************************)
(* Natural numbers of any size: <<l1, l2, ...>> is l1 + l2*Base + ...,     *)
(* with no leading zero limb; <<>> is 0.                                   *)
(***************************************************************************)
RECURSIVE BNFromInt(_)
BNFromInt(n) ==
    IF n = 0 THEN <<>> ELSE <<n % Base>> \o BNFromInt(n \div Base)

RECURSIVE BNToInt(_)
BNToInt(a) ==
    IF a = <<>> THEN 0 ELSE a[1] + Base * BNToInt(Tail(a))

RECURSIVE BNNorm(_)
BNNorm(a) ==
    IF a # <<>> /\ a[Len(a)] = 0 THEN BNNorm(SubSeq(a, 1, Len(a) - 1)) ELSE a

RECURSIVE BNCmpFrom(_, _, _)
BNCmpFrom(a, b, i) ==
    IF i = 0 THEN 0
    ELSE IF a[i] > b[i] THEN 1
    ELSE IF a[i] < b[i] THEN -1
    ELSE BNCmpFrom(a, b, i - 1)

\* -1, 0 or 1 as a < b, a = b or a > b.
BNCmp(a, b) ==
    IF Len(a) > Len(b) THEN 1
    ELSE IF Len(a) < Len(b) THEN -1
    ELSE BNCmpFrom(a, b, Len(a))

RECURSIVE BNAddCarry(_, _)
\* a + c for a small c.
BNAddCarry(a, c) ==
    IF c = 0 THEN a
    ELSE IF a = <<>> THEN <<c>>
    ELSE LET t == a[1] + c
         IN  <<t % Base>> \o BNAddCarry(Tail(a), t \div Base)

RECURSIVE BNAddLimbs(_, _, _)
BNAddLimbs(a, b, c) ==
    IF a = <<>> THEN BNAddCarry(b, c)
    ELSE IF b = <<>> THEN BNAddCarry(a, c)
    ELSE LET t == a[1] + b[1] + c
         IN  <<t % Base>> \o BNAddLimbs(Tail(a), Tail(b), t \div Base)

BNAdd(a, b) == BNAddLimbs(a, b, 0)

RECURSIVE BNSubBorrow(_, _, _)
BNSubBorrow(a, b, br) ==
    IF a = <<>> THEN <<>>
    ELSE LET bi == IF b = <<>> THEN 0 ELSE b[1]
             t  == a[1] - bi - br
         IN  <<IF t < 0 THEN t + Base ELSE t>>
             \o BNSubBorrow(Tail(a), IF b = <<>> THEN <<>> ELSE Tail(b),
                            IF t < 0 THEN 1 ELSE 0)

\* a - b, for a >= b.
BNSub(a, b) == BNNorm(BNSubBorrow(a, b, 0))

RECURSIVE BNMulCarry(_, _, _)
BNMulCarry(a, d, c) ==
    IF a = <<>> THEN (IF c = 0 THEN <<>> ELSE <<c>>)
    ELSE LET t == a[1] * d + c
         IN  <<t % Base>> \o BNMulCarry(Tail(a), d, t \div Base)

\* a * d for one limb d.
BNMulSmall(a, d) == BNNorm(BNMulCarry(a, d, 0))

RECURSIVE BNMul(_, _)
BNMul(a, b) ==
    IF b = <<>> THEN <<>>
    ELSE BNNorm(BNAdd(BNMulSmall(a, b[1]), <<0>> \o BNMul(a, Tail(b))))

RECURSIVE IntBitLen(_)
IntBitLen(n) == IF n = 0 THEN 0 ELSE 1 + IntBitLen(n \div 2)

\* The number of bits of a: 0 for 0, else floor(log2 a) + 1.
BNBitLen(a) ==
    IF a = <<>> THEN 0 ELSE (Len(a) - 1) * LimbBits + IntBitLen(a[Len(a)])

\* Bit i of a, bit 0 the lowest.
BNBit(a, i) ==
    LET l == (i \div LimbBits) + 1
    IN  IF l > Len(a) THEN 0 ELSE (a[l] \div (2 ^ (i % LimbBits))) % 2

\* a * 2^n.
BNShl(a, n) ==
    IF a = <<>> THEN <<>>
    ELSE [i \in 1..(n \div LimbBits) |-> 0] \o BNMulSmall(a, 2 ^ (n % LimbBits))

RECURSIVE BNDivBits(_, _, _, _, _)
\* Binary long division of bits hi-1 .. lo of a by b, entered with the
\* remainder r < b of the bits above them: <<quotient bits, remainder>>.
\* The bits are taken highest first; the range is halved to keep the
\* evaluation shallow.
BNDivBits(a, b, hi, lo, r) ==
    IF hi - lo = 1
    THEN LET r2 == BNAddCarry(BNMulSmall(r, 2), BNBit(a, lo))
         IN  IF BNCmp(r2, b) >= 0 THEN <<<<1>>, BNSub(r2, b)>> ELSE <<<<>>, r2>>
    ELSE LET mid  == (hi + lo) \div 2
             high == BNDivBits(a, b, hi, mid, r)
             low  == BNDivBits(a, b, mid, lo, high[2])
         IN  <<BNAdd(BNShl(high[1], mid - lo), low[1]), low[2]>>

\* <<a div b, a mod b>>, for b > 0.
BNDivMod(a, b) ==
    IF a = <<>> THEN <<<<>>, <<>>>> ELSE BNDivBits(a, b, BNBitLen(a), 0, <<>>)

(***************************************************************************)
(* Python floats >= 0: [m |-> significand, e |-> exponent] is m * 2^e.     *)
(* Every operation computes the exact result and rounds it to MantBits     *)
(* bits, to nearest, ties to even, as IEEE-754 does.  The values met here  *)
(* are far from overflow and from the subnormal range.                     *)
(***************************************************************************)
FloatZero == [m |-> <<>>, e |-> 0]

\* float(n), exact for the integers met here.
FloatFromInt(n) == [m |-> BNFromInt(n), e |-> 0]

\* q with a discarded part that compares as c (-1, 0, 1) with one half.
RoundNearestEven(q, c) ==
    IF c > 0 \/ (c = 0 /\ BNBit(q, 0) = 1) THEN BNAddCarry(q, 1) ELSE q

\* The exact natural p * 2^e rounded to MantBits bits.
FloatRound(p, e) ==
    LET len == BNBitLen(p)
    IN  IF len <= MantBits THEN [m |-> p, e |-> e]
        ELSE LET sh == len - MantBits
                 dm == BNDivMod(p, BNShl(<<1>>, sh))
                 c  == BNCmp(BNMulSmall(dm[2], 2), BNShl(<<1>>, sh))
             IN  [m |-> RoundNearestEven(dm[1], c), e |-> e + sh]

\* x * y.
FloatMul(x, y) == FloatRound(BNMul(x.m, y.m), x.e + y.e)

\* x / y for y # 0: the quotient to MantBits bits, then rounded.
FloatDiv(x, y) ==
    IF x.m = <<>> THEN FloatZero
    ELSE LET s0 == MantBits + BNBitLen(y.m) - BNBitLen(x.m)
             d0 == BNDivMod(BNShl(x.m, s0), y.m)
             s  == IF BNBitLen(d0[1]) > MantBits THEN s0 - 1 ELSE s0
             dm == IF s = s0 THEN d0 ELSE BNDivMod(BNShl(x.m, s), y.m)
             c  == BNCmp(BNMulSmall(dm[2], 2), y.m)
         IN  [m |-> RoundNearestEven(dm[1], c), e |-> x.e - y.e - s]

\* x > y.
FloatGt(x, y) ==
    LET e0 == IF x.e < y.e THEN x.e ELSE y.e
    IN  BNCmp(BNShl(x.m, x.e - e0), BNShl(y.m, y.e - e0)) > 0

\* Python's a / b on ints: the correctly rounded quotient.
TrueDiv(a, b) == FloatDiv(FloatFromInt(a), FloatFromInt(b))

\* A variant of int(x) that rounds to the nearest integer, as round(x) does.
FloatToIntNearest(x) ==
    IF x.e >= 0 THEN BNToInt(BNShl(x.m, x.e))
    ELSE LET half == BNShl(<<1>>, 0 - x.e)
             dm   == BNDivMod(x.m, half)
         IN  BNToInt(RoundNearestEven(dm[1], BNCmp(BNMulSmall(dm[2], 2), half)))

\* int(x): truncation toward zero.
FloatToInt(x) ==
    IF x.e >= 0 THEN BNToInt(BNShl(x.m, x.e))
    ELSE BNToInt(BNDivMod(x.m, BNShl(<<1>>, 0 - x.e))[1])


(***************************************************************************)
(* Name normalizer.  A name is a sequence of one-character strings.        *)
(***************************************************************************)
UpperChars == <<"A", "B", "C", "D", "E", "F", "G", "H", "I", "J", "K", "L", "M",
                "N", "O", "P", "Q", "R", "S", "T", "U", "V", "W", "X", "Y", "Z">>
LowerChars == <<"a", "b", "c", "d", "e", "f", "g", "h", "i", "j", "k", "l", "m",
                "n", "o", "p", "q", "r", "s", "t", "u", "v", "w", "x", "y", "z">>
DigitChars == <<"0", "1", "2", "3", "4", "5", "6", "7", "8", "9">>

\* The character classes [A-Z], [a-z] and [0-9] of the regular expressions.
IsUpper(c) == \E i \in DOMAIN UpperChars : UpperChars[i] = c
IsLower(c) == \E i \in DOMAIN LowerChars : LowerChars[i] = c
IsDigit(c) == \E i \in DOMAIN DigitChars : DigitChars[i] = c

ToLower(c) ==
    IF IsUpper(c)
    THEN LowerChars[CHOOSE i \in DOMAIN UpperChars : UpperChars[i] = c]
    ELSE c

\* A variant of str.lower() that leaves the case as it is.
LowercaseIdentity(s) == s

\* str.lower().
Lowercase(s) == [i \in 1..Len(s) |-> ToLower(s[i])]

\* os.path.splitext(name)[0] for a name with no directory separator: the
\* name up to its last dot, unless only dots come before that dot.
splitext(s) ==
    LET dots == {i \in 1..Len(s) : s[i] = "."}
    IN  IF dots = {} THEN s
        ELSE LET dotIndex == CHOOSE i \in dots : \A j \in dots : j <= i
             IN  IF \E j \in 1..(dotIndex - 1) : s[j] # "."
                 THEN SubSeq(s, 1, dotIndex - 1)
                 ELSE s

\* The last index of the run of [a-z] that starts at i.
RECURSIVE LowerRunEnd(_, _)
LowerRunEnd(s, i) ==
    IF i < Len(s) /\ IsLower(s[i + 1]) THEN LowerRunEnd(s, i + 1) ELSE i

\* re.sub('(.)([A-Z][a-z]+)', r'\1_\2', s), scanning from index i: matches
\* are found left to right and do not overlap.
RECURSIVE SubCapitalWord(_, _)
SubCapitalWord(s, i) ==
    IF i > Len(s) THEN <<>>
    ELSE IF i + 2 <= Len(s) /\ s[i] # "\n" /\ IsUpper(s[i + 1]) /\ IsLower(s[i + 2])
         THEN LET j == LowerRunEnd(s, i + 2)
              IN  <<s[i], "_">> \o SubSeq(s, i + 1, j) \o SubCapitalWord(s, j + 1)
         ELSE <<s[i]>> \o SubCapitalWord(s, i + 1)

\* re.sub('([a-z0-9])([A-Z])', r'\1_\2', s), scanning from index i.
RECURSIVE SubLowerUpper(_, _)
SubLowerUpper(s, i) ==
    IF i > Len(s) THEN <<>>
    ELSE IF i + 1 <= Len(s) /\ (IsLower(s[i]) \/ IsDigit(s[i])) /\ IsUpper(s[i + 1])
         THEN <<s[i], "_", s[i + 1]>> \o SubLowerUpper(s, i + 2)
         ELSE <<s[i]>> \o SubLowerUpper(s, i + 1)

\* re.sub(r'[^a-zA-Z0-9]', '_', s).
SubNonAlnum(s) ==
    [i \in 1..Len(s) |->
        IF IsUpper(s[i]) \/ IsLower(s[i]) \/ IsDigit(s[i]) THEN s[i] ELSE "_"]

to_snake_case(name) ==
    LET stem == splitext(name)
        s1   == SubCapitalWord(stem, 1)
        s2   == SubLowerUpper(s1, 1)
    IN  Lowercase(SubNonAlnum(s2))

\* A variant of output_filename that keeps the stem as it is written.
OutputFilenameRaw(filename) == splitext(filename) \o <<".", "w", "e", "b", "p">>

\* output_filename of create_uniform_thumbnail: os.path.basename of a path
\* joined from the directory and a directory entry is the entry itself.
OutputFilename(filename) == to_snake_case(filename) \o <<".", "w", "e", "b", "p">>

\* A variant of the extension test that does not lower the name first.
IsPdfCaseSensitive(filename) ==
    /\ Len(filename) >= 4
    /\ SubSeq(filename, Len(filename) - 3, Len(filename)) = <<".", "p", "d", "f">>

\* filename.lower().endswith('.pdf')
IsPdf(filename) ==
    LET low == Lowercase(filename)
    IN  /\ Len(low) >= 4
        /\ SubSeq(low, Len(low) - 3, Len(low)) = <<".", "p", "d", "f">>

(***************************************************************************)
(* Thumbnail compositor.  An image is its size, [width, height].  The      *)
(* rasterizer's answer is [raises, pages]: convert_from_path either raises *)
(* or returns a list of at most one page; encode_ok tells whether          *)
(* thumbnail.save succeeds or raises.                                      *)
(***************************************************************************)
NoSize == [width |-> 0, height |-> 0]
NoBox  == <<0, 0, 0, 0>>

\* A variant of Image.new with the two sides exchanged.
ImageNewSwapped(width, height) == [width |-> height, height |-> width]

\* Image.new('RGB', (width, height), (255, 255, 255))
ImageNew(width, height) == [width |-> width, height |-> height]

\* A variant of the aspect-ratio test with the comparison turned around.
IsWiderFlipped(img_ratio, target_ratio) == FloatGt(target_ratio, img_ratio)

\* img_ratio > target_ratio
IsWider(img_ratio, target_ratio) == FloatGt(img_ratio, target_ratio)

\* A call that leaves the try block before an image is composed: exc is the
\* exception raised ("none" when it returns), ret the return value.
NoThumbnail(exc, ret, msg) ==
    [exc |-> exc, ret |-> ret, msg |-> msg, branch |-> "none",
     resized |-> NoSize, box |-> NoBox, offset |-> 0,
     saved |-> NoSize, written |-> FALSE]

\* new_width = int(img_ratio * new_height)
ScaledWidth(img_ratio, new_height) ==
    FloatToInt(FloatMul(img_ratio, FloatFromInt(new_height)))

\* new_height = int(new_width / img_ratio)
ScaledHeight(img_ratio, new_width) ==
    FloatToInt(FloatDiv(FloatFromInt(new_width), img_ratio))

\* left = (new_width - target_width) // 2 and top likewise
CenterOffset(new_size, target_size) == (new_size - target_size) \div 2

\* resize, centre, paste with crop, save.  resized is the size given to
\* img.resize, box the crop box (left, upper, right, lower), saved the image
\* written.
Compose(wider, new_width, new_height, offset, encode_ok) ==
    [exc |-> IF encode_ok THEN "none" ELSE "OSError",
     ret |-> encode_ok,
     msg |-> IF encode_ok THEN "Created" ELSE "none",
     branch |-> IF wider THEN "wider" ELSE "taller",
     resized |-> [width |-> new_width, height |-> new_height],
     box |-> IF wider THEN <<offset, 0, offset + target_width, new_height>>
             ELSE <<0, offset, new_width, offset + target_height>>,
     offset |-> offset,
     saved |-> IF encode_ok THEN ImageNew(target_width, target_height) ELSE NoSize,
     written |-> encode_ok]

\* The two branches of the aspect-ratio test.
ComposeWider(img_ratio, encode_ok) ==
    LET new_width == ScaledWidth(img_ratio, target_height)
    IN  Compose(TRUE, new_width, target_height,
                CenterOffset(new_width, target_width), encode_ok)

ComposeTaller(img_ratio, encode_ok) ==
    IF img_ratio = FloatZero THEN NoThumbnail("ZeroDivisionError", FALSE, "none")
    ELSE LET new_height == ScaledHeight(img_ratio, target_width)
         IN  Compose(FALSE, target_width, new_height,
                     CenterOffset(new_height, target_height), encode_ok)

ComposePage(img_ratio, target_ratio, encode_ok) ==
    IF IsWider(img_ratio, target_ratio)
    THEN ComposeWider(img_ratio, encode_ok)
    ELSE ComposeTaller(img_ratio, encode_ok)

\* What the try block does.
TryBody(raster, encode_ok) ==
    IF raster.raises THEN NoThumbnail("PDFPageCountError", FALSE, "none")
    ELSE IF raster.pages = <<>> THEN NoThumbnail("none", FALSE, "NoPages")
    ELSE IF raster.pages[1].height = 0
    THEN NoThumbnail("ZeroDivisionError", FALSE, "none")
    ELSE ComposePage(TrueDiv(raster.pages[1].width, raster.pages[1].height),
                     TrueDiv(target_width, target_height), encode_ok)

\* A variant of the handler that lets arithmetic errors through.
ExceptCatchesNoArithmetic(exc) == exc \in {"PDFPageCountError", "OSError"}

\* except Exception: every exception the body raises is one.
ExceptCatches(exc) ==
    exc \in {"PDFPageCountError", "ZeroDivisionError", "OSError"}

\* try/except around the body: a caught exception prints an error and
\* returns False, any other leaves the call.
CallOutcome(b) ==
    [returned |-> b.exc = "none" /\ b.ret,
     raised   |-> IF b.exc = "none" \/ ExceptCatches(b.exc) THEN "none" ELSE b.exc,
     message  |-> IF b.exc = "none" THEN b.msg
                  ELSE IF ExceptCatches(b.exc) THEN "Error" ELSE "none",
     branch |-> b.branch, resized |-> b.resized, box |-> b.box,
     offset |-> b.offset, saved |-> b.saved, written |-> b.written]

\* The call as its caller sees it: returned is its value, raised the
\* exception that leaves it ("none" when it returns), message what it prints.
create_uniform_thumbnail(raster, encode_ok) ==
    CallOutcome(TryBody(raster, encode_ok))

(***************************************************************************)
(* The inputs of the model.                                                *)
(***************************************************************************)
FileLowerA == <<"a", ".", "p", "d", "f">>
FileUpperA == <<"A", ".", "P", "D", "F">>
FileCamel  == <<"a", "B", ".", "p", "d", "f">>
FileText   == <<"n", ".", "t", "x", "t">>

\* The names a source directory is filled from.
FileUniverse == {FileLowerA, FileUpperA, FileCamel, FileText}

\* The directory main creates inside the source directory.
ThumbnailsName == <<"t", "h", "u", "m", "b", "n", "a", "i", "l", "s">>

Image(w, h) == [width |-> w, height |-> h]

\* The page sizes of the batch run: the small ones (a side of 0 included), the
\* target's own ratio, a much wider and a much taller page.
PageSizes ==
    {Image(p[1], p[2]) : p \in (0..MaxPage) \X (0..MaxPage)}
        \cup {Image(4, 3), Image(10, 1), Image(1, 10)}

RasterRaises == [raises |-> TRUE, pages |-> <<>>]
RasterEmpty  == [raises |-> FALSE, pages |-> <<>>]
RasterPage(img) == [raises |-> FALSE, pages |-> <<img>>]

\* What the rasterizer and the encoder may do for one file.  The encoder is
\* not reached when there is no page.
CallInputs ==
    {[raster |-> r, encode_ok |-> TRUE] : r \in {RasterRaises, RasterEmpty}}
        \cup {[raster |-> RasterPage(img), encode_ok |-> ok] :
                 img \in PageSizes, ok \in BOOLEAN}

\* The pages create_uniform_thumbnail is given in CompSpec.
CompInputs ==
    {[raster |-> RasterPage(Image(p[1], p[2])), encode_ok |-> TRUE] :
        p \in (0..MaxDim) \X (0..MaxDim)}

\* create_uniform_thumbnail on each input, as pairs <<input, result>>: a
\* constant, which is evaluated once.
ThumbnailCalls ==
    {<<c, create_uniform_thumbnail(c.raster, c.encode_ok)>> : c \in CallInputs}
CompositeCalls ==
    {<<c, create_uniform_thumbnail(c.raster, c.encode_ok)>> : c \in CompInputs}

NoResult ==
    [returned |-> FALSE, raised |-> "none", message |-> "none", branch |-> "none",
     resized |-> NoSize, box |-> NoBox, offset |-> 0, saved |-> NoSize,
     written |-> FALSE]

NoCall == [file |-> <<>>, call |-> [raster |-> RasterEmpty, encode_ok |-> TRUE],
           res |-> NoResult]

\* A thumbnail left in the thumbnails directory by something earlier.
StaleArtifact == [name |-> OutputFilename(FileLowerA), width |-> 200, height |-> 150]

\* Writing file n of size img into a directory replaces the file of that name.
WriteFile(dir, n, img) ==
    {a \in dir : a.name # n} \cup {[name |-> n, width |-> img.width, height |-> img.height]}

\* The names to_snake_case is applied to in SnakeSpec.
SnakeAlphabet == {"a", "b", "A", "B", "1", "_", " ", "."}

MyFileName ==
    <<"M", "y", "F", "i", "l", "e", " ", "N", "a", "m", "e", ".", "p", "d", "f">>
AlreadySnake ==
    <<"a", "l", "r", "e", "a", "d", "y", "_", "s", "n", "a", "k", "e", ".", "p", "d", "f">>
CamelCaseFile ==
    <<"C", "a", "m", "e", "l", "C", "A", "S", "E", "F", "i", "l", "e", ".", "p", "d", "f">>

SnakeNames ==
    UNION {[1..n -> SnakeAlphabet] : n \in 0..MaxLen}
        \cup {MyFileName, AlreadySnake, CamelCaseFile}

(***************************************************************************)
(* State.                                                                  *)
(***************************************************************************)
VARIABLES
    pc,             \* where the run is
    source_dir,     \* what the path given to main is: "absent", "dir", "file"
    entries,        \* the names in the source directory, thumbnails aside
    thumb_exists,   \* whether <source_dir>/thumbnails exists
    preexisting,    \* whether it existed when the run began
    artifacts,      \* the files of the thumbnails directory
    listing,        \* the entries of os.listdir not yet visited
    success_count,
    failed_count,
    exit_code,      \* the process's exit code, -1 while it runs
    console,        \* the per-file and fatal lines printed: <<kind, file>>
    summary,        \* the summary printed: <<>> or <<success, failed>>
    succeeded,      \* the files create_uniform_thumbnail returned True for
    failed,         \* the files it returned False for
    last,           \* the last call of create_uniform_thumbnail
    input_name,     \* SnakeSpec: the name given to to_snake_case
    snake,          \*            its result
    twice,          \*            the result of to_snake_case on that result
    comp_call,      \* CompSpec: the page given to create_uniform_thumbnail
    comp_res        \*           its result

batch_vars == <<source_dir, entries, thumb_exists, preexisting, artifacts, listing,
                success_count, failed_count, exit_code, console, summary,
                succeeded, failed, last>>
snake_vars == <<input_name, snake, twice>>
comp_vars  == <<comp_call, comp_res>>
vars == <<pc, batch_vars, snake_vars, comp_vars>>

BatchIdle ==
    /\ source_dir = "absent" /\ entries = {} /\ thumb_exists = FALSE
    /\ preexisting = FALSE /\ artifacts = {} /\ listing = {}
    /\ success_count = 0 /\ failed_count = 0 /\ exit_code = -1
    /\ console = {} /\ summary = <<>> /\ succeeded = {} /\ failed = {}
    /\ last = NoCall
SnakeIdle == input_name = <<>> /\ snake = <<>> /\ twice = <<>>
CompIdle  == comp_call = NoCall.call /\ comp_res = NoResult

(***************************************************************************)
(* The batch driver, main.                                                 *)
(***************************************************************************)
Init ==
    /\ pc = "Start"
    /\ source_dir \in {"absent", "dir", "file"}
    /\ entries \in IF source_dir = "dir"
                   THEN {S \in SUBSET FileUniverse : Cardinality(S) <= MaxFiles}
                   ELSE {{}}
    /\ thumb_exists \in IF source_dir = "dir" THEN BOOLEAN ELSE {FALSE}
    /\ preexisting = thumb_exists
    /\ artifacts \in IF thumb_exists THEN {{}, {StaleArtifact}} ELSE {{}}
    /\ listing = {}
    /\ success_count = 0 /\ failed_count = 0 /\ exit_code = -1
    /\ console = {} /\ summary = <<>> /\ succeeded = {} /\ failed = {}
    /\ last = NoCall
    /\ SnakeIdle /\ CompIdle

\* A variant of the existence test that accepts every path.
PathExistsAlways(kind) == TRUE

\* os.path.exists(source_dir)
PathExists(kind) == kind # "absent"

\* if not os.path.exists(source_dir): print the error and sys.exit(1)
Start ==
    /\ pc = "Start"
    /\ IF ~PathExists(source_dir)
       THEN /\ console' = console \cup {<<"DirectoryDoesNotExist", <<>>>>}
            /\ exit_code' = 1
            /\ pc' = "Exited"
       ELSE /\ pc' = "Prepare"
            /\ UNCHANGED <<console, exit_code>>
    /\ UNCHANGED <<source_dir, entries, thumb_exists, preexisting, artifacts, listing,
                   success_count, failed_count, summary, succeeded, failed, last>>
    /\ UNCHANGED <<snake_vars, comp_vars>>

\* os.makedirs(thumbnail_dir, exist_ok=True), the counters, os.listdir.
\* makedirs creates the missing directories of the path; under a path that
\* is a regular file it raises NotADirectoryError, which nothing catches:
\* the interpreter prints the traceback and exits with code 1.
Prepare ==
    /\ pc = "Prepare"
    /\ IF source_dir = "file"
       THEN /\ console' = console \cup {<<"Traceback", <<>>>>}
            /\ exit_code' = 1
            /\ pc' = "Exited"
            /\ UNCHANGED <<source_dir, thumb_exists, listing>>
       ELSE /\ source_dir' = "dir"
            /\ thumb_exists' = TRUE
            /\ listing' = entries \cup {ThumbnailsName}
            /\ pc' = "Iterate"
            /\ UNCHANGED <<console, exit_code>>
    /\ success_count' = 0
    /\ failed_count' = 0
    /\ UNCHANGED <<entries, preexisting, artifacts, summary, succeeded, failed, last>>
    /\ UNCHANGED <<snake_vars, comp_vars>>

\* One turn of the loop for an entry that ends in .pdf: the call of
\* create_uniform_thumbnail and the counter it decides.  An exception that
\* left the call would be caught by nothing and end the process.
ProcessPdf ==
    /\ pc = "Iterate"
    /\ \E filename \in listing :
        /\ IsPdf(filename)
        /\ \E call \in ThumbnailCalls :
            LET c == call[1]
                r == call[2]
            IN
            /\ last' = [file |-> filename, call |-> c, res |-> r]
            /\ listing' = listing \ {filename}
            /\ IF r.raised # "none"
               THEN /\ console' = console \cup {<<"Traceback", filename>>}
                    /\ exit_code' = 1
                    /\ pc' = "Exited"
                    /\ UNCHANGED <<artifacts, success_count, failed_count,
                                   succeeded, failed>>
               ELSE /\ console' = console \cup {<<r.message, filename>>}
                    /\ artifacts' = IF r.written
                                    THEN WriteFile(artifacts, OutputFilename(filename), r.saved)
                                    ELSE artifacts
                    /\ IF r.returned
                       THEN /\ success_count' = success_count + 1
                            /\ succeeded' = succeeded \cup {filename}
                            /\ UNCHANGED <<failed_count, failed>>
                       ELSE /\ failed_count' = failed_count + 1
                            /\ failed' = failed \cup {filename}
                            /\ UNCHANGED <<success_count, succeeded>>
                    /\ UNCHANGED <<pc, exit_code>>
    /\ UNCHANGED <<source_dir, entries, thumb_exists, preexisting, summary>>
    /\ UNCHANGED <<snake_vars, comp_vars>>

\* One turn of the loop for any other entry.
SkipEntry ==
    /\ pc = "Iterate"
    /\ \E filename \in listing :
        /\ ~IsPdf(filename)
        /\ listing' = listing \ {filename}
    /\ UNCHANGED <<pc, source_dir, entries, thumb_exists, preexisting, artifacts,
                   success_count, failed_count, exit_code, console, summary,
                   succeeded, failed, last>>
    /\ UNCHANGED <<snake_vars, comp_vars>>

\* The summary, and the normal end of the process.
Finish ==
    /\ pc = "Iterate"
    /\ listing = {}
    /\ summary' = <<success_count, failed_count>>
    /\ exit_code' = 0
    /\ pc' = "Exited"
    /\ UNCHANGED <<source_dir, entries, thumb_exists, preexisting, artifacts, listing,
                   success_count, failed_count, console, succeeded, failed, last>>
    /\ UNCHANGED <<snake_vars, comp_vars>>

Next == Start \/ Prepare \/ ProcessPdf \/ SkipEntry \/ Finish

Spec == Init /\ [][Next]_vars

(***************************************************************************)
(* to_snake_case applied to a name, and again to its own result.           *)
(***************************************************************************)
SnakeInit ==
    /\ pc = "SnakeInput"
    /\ input_name \in SnakeNames
    /\ snake = <<>> /\ twice = <<>>
    /\ BatchIdle /\ CompIdle

SnakeApply ==
    /\ pc = "SnakeInput"
    /\ snake' = to_snake_case(input_name)
    /\ pc' = "SnakeOnce"
    /\ UNCHANGED <<input_name, twice, batch_vars, comp_vars>>

SnakeReapply ==
    /\ pc = "SnakeOnce"
    /\ twice' = to_snake_case(snake)
    /\ pc' = "SnakeTwice"
    /\ UNCHANGED <<input_name, snake, batch_vars, comp_vars>>

SnakeNext == SnakeApply \/ SnakeReapply

SnakeSpec == SnakeInit /\ [][SnakeNext]_vars

(***************************************************************************)
(* create_uniform_thumbnail applied to one rasterized page.                *)
(***************************************************************************)
CompInit ==
    /\ pc = "CompInput"
    /\ comp_call \in CompInputs
    /\ comp_res = NoResult
    /\ BatchIdle /\ SnakeIdle

CompApply ==
    /\ pc = "CompInput"
    /\ \E call \in CompositeCalls :
        /\ call[1] = comp_call
        /\ comp_res' = call[2]
    /\ pc' = "CompDone"
    /\ UNCHANGED <<comp_call, batch_vars, snake_vars>>

CompNext == CompApply

CompSpec == CompInit /\ [][CompNext]_vars

(***************************************************************************)
(* Properties, after the helpers they share.                               *)
(***************************************************************************)
WebpSuffix == <<".", "w", "e", "b", "p">>

\* f ends in .pdf, whatever the case of its letters.
EndsInPdf(f) ==
    /\ Len(f) >= 4
    /\ f[Len(f) - 3] = "."
    /\ f[Len(f) - 2] \in {"p", "P"}
    /\ f[Len(f) - 1] \in {"d", "D"}
    /\ f[Len(f)] \in {"f", "F"}

\* The call was given a page, and the page's sides.
HasPage(call) == ~call.raster.raises /\ call.raster.pages # <<>>
PageWidth(call) == call.raster.pages[1].width
PageHeight(call) == call.raster.pages[1].height
PositivePage(call) == HasPage(call) /\ PageWidth(call) > 0 /\ PageHeight(call) > 0
ZeroAreaPage(call) == HasPage(call) /\ (PageWidth(call) = 0 \/ PageHeight(call) = 0)

\* The thumbnails directory holds exactly one file of that name.
OneArtifactNamed(n) == Cardinality({a \in artifacts : a.name = n}) = 1

NoDoubleUnderscore(s) == \A i \in 1..(Len(s) - 1) : ~(s[i] = "_" /\ s[i + 1] = "_")

C2_SingleUnderscore ==
    pc # "SnakeInput" =>
        /\ NoDoubleUnderscore(snake)
        /\ input_name = MyFileName
              => snake = <<"m", "y", "_", "f", "i", "l", "e", "_", "n", "a", "m", "e">>
        /\ input_name = AlreadySnake
              => snake = <<"a", "l", "r", "e", "a", "d", "y", "_", "s", "n", "a", "k", "e">>

\* The run went through a directory of .pdf entries only, into a thumbnails
\* directory it created, and no file failed.
AllPdfSucceeded ==
    /\ pc = "Exited"
    /\ source_dir = "dir"
    /\ ~preexisting
    /\ \A f \in entries : EndsInPdf(f)
    /\ failed = {}

\* C3 as stated: N .pdf entries that all succeed leave N artifacts and
\* success_count = N.
C3_NArtifacts ==
    AllPdfSucceeded =>
        /\ success_count = Cardinality(entries)
        /\ Cardinality(artifacts) = Cardinality(entries)

\* C3, amended: N .pdf entries that all succeed leave success_count = N and
\* one artifact for each distinct normalized name, which may be fewer than N.
C3_OneArtifactPerNormalizedName ==
    AllPdfSucceeded =>
        /\ success_count = Cardinality(entries)
        /\ {a.name : a \in artifacts} = {to_snake_case(f) \o WebpSuffix : f \in entries}
        /\ Cardinality(artifacts) = Cardinality({to_snake_case(f) : f \in entries})
        /\ Cardinality(artifacts) <= Cardinality(entries)

\* a.pdf and A.PDF both succeeded and left one artifact.
C3_Witness ==
    /\ AllPdfSucceeded
    /\ entries = {FileLowerA, FileUpperA}
    /\ success_count = 2
    /\ Cardinality(artifacts) = 1

\* C4: a failed file never ends the batch.  While the loop runs and when it
\* has finished, the files counted are exactly the visited entries that end
\* in .pdf in any case, success_count and failed_count count those that
\* succeeded and those that failed, and no other entry is counted; the run
\* ends only with every entry visited, the summary printed and exit code 0.
C4_FailuresIsolated ==
    (source_dir = "dir" /\ pc \in {"Iterate", "Exited"}) =>
        /\ succeeded \cap failed = {}
        /\ succeeded \cup failed = {f \in entries : EndsInPdf(f)} \ listing
        /\ success_count = Cardinality(succeeded)
        /\ failed_count = Cardinality(failed)
        /\ pc = "Exited" => /\ listing = {}
                            /\ exit_code = 0
                            /\ summary = <<success_count, failed_count>>

\* One corrupt file among two: the first failed, the second was still
\* processed and succeeded.
C4_Witness ==
    /\ pc = "Exited"
    /\ success_count = 1
    /\ failed_count = 1
    /\ last.res.returned
    /\ <<"Error", FileUpperA>> \in console
    /\ last.file = FileCamel

\* C5: for a page of positive width and height the call succeeds and the
\* pasted region covers the canvas: the resized width is at least
\* target_width in the wider branch and the resized height at least
\* target_height in the other, the crop offset is not negative, and the crop
\* box has the canvas's size and lies inside the resized image.
C5_CropCoversCanvas ==
    (pc = "CompDone" /\ PositivePage(comp_call)) =>
        LET r == comp_res IN
        /\ r.returned
        /\ r.branch \in {"wider", "taller"}
        /\ r.branch = "wider" => r.resized.width >= target_width
        /\ r.branch = "taller" => r.resized.height >= target_height
        /\ r.offset >= 0
        /\ r.box[1] >= 0 /\ r.box[2] >= 0
        /\ r.box[3] <= r.resized.width /\ r.box[4] <= r.resized.height
        /\ r.box[3] - r.box[1] = target_width
        /\ r.box[4] - r.box[2] = target_height

\* A page taller than the target whose crop starts below the top.
C5_Witness ==
    /\ pc = "CompDone"
    /\ PositivePage(comp_call)
    /\ comp_res.branch = "taller"
    /\ comp_res.offset > 0
    /\ comp_res.resized.height > 2 * target_height

\* C6: when the source directory does not exist the run goes from its start
\* straight to its end with exit code 1 and the error printed: no thumbnails
\* directory is created, no entry is listed or processed, no summary printed.
C6_MissingDirectoryIsFatal ==
    source_dir = "absent" =>
        /\ pc \in {"Start", "Exited"}
        /\ ~thumb_exists
        /\ artifacts = {}
        /\ listing = {}
        /\ succeeded = {} /\ failed = {}
        /\ success_count = 0 /\ failed_count = 0
        /\ last = NoCall
        /\ summary = <<>>
        /\ pc = "Exited" => /\ exit_code = 1
                            /\ console = {<<"DirectoryDoesNotExist", <<>>>>}

C6_Witness ==
    /\ source_dir = "absent"
    /\ pc = "Exited"
    /\ exit_code = 1
    /\ ~thumb_exists

\* C7 as stated: a run on a source path that exists ends with the summary
\* printed and exit code 0; the exit code is not 0 only for a path that does
\* not exist.
C7_ExistingPathFinishes ==
    (pc = "Exited" /\ source_dir # "absent") =>
        /\ exit_code = 0
        /\ summary = <<success_count, failed_count>>

\* The step of the loop that calls create_uniform_thumbnail on a page with a
\* side of zero.
ZeroAreaStep ==
    /\ pc = "Iterate"
    /\ last'.file \in listing
    /\ last'.file \notin listing'
    /\ ZeroAreaPage(last'.call)

\* C8: a page of zero width or zero height makes the call return False with
\* an error printed and no exception leaving it; no artifact is written, the
\* file is counted in failed_count alone, and the loop goes on.
C8_ZeroAreaFailsFileOnly ==
    [][ZeroAreaStep =>
          /\ ~last'.res.returned
          /\ last'.res.raised = "none"
          /\ last'.res.message = "Error"
          /\ <<"Error", last'.file>> \in console'
          /\ artifacts' = artifacts
          /\ failed_count' = failed_count + 1
          /\ success_count' = success_count
          /\ failed' = failed \cup {last'.file}
          /\ pc' = "Iterate"
          /\ exit_code' = -1]_vars

\* A page of zero width failed its file, with an entry still to visit.
C8_Witness ==
    /\ pc = "Iterate"
    /\ ZeroAreaPage(last.call)
    /\ PageWidth(last.call) = 0 /\ PageHeight(last.call) > 0
    /\ last.file \in failed
    /\ \E f \in listing : EndsInPdf(f)

\* C9: to_snake_case applied to its own result gives that result again.
C9_Idempotent == pc = "SnakeTwice" => twice = snake

\* The second application met a result with two adjacent underscores.
C9_Witness ==
    /\ pc = "SnakeTwice"
    /\ input_name = MyFileName
    /\ ~NoDoubleUnderscore(snake)
    /\ twice = snake

\* The exact quotient a / b rounded down, rounded to nearest (a half goes
\* up), and whether it is an integer.
FloorDiv(a, b) == a \div b
NearestDiv(a, b) == (2 * a + b) \div (2 * b)
Divides(b, a) == a % b = 0

\* n is the exact value a / b truncated, or one less where a / b is an
\* integer.
TruncatedQuotient(n, a, b) ==
    \/ n = FloorDiv(a, b)
    \/ Divides(b, a) /\ n = FloorDiv(a, b) - 1

\* The page is relatively wider than the target, in exact arithmetic.
WiderPage(call) == PageWidth(call) * target_height > PageHeight(call) * target_width

\* C10 as stated: the scaled side is the exact proportional value rounded to
\* the nearest integer, and the crop offset half the excess, truncated.
C10_RoundedToNearest ==
    (pc = "CompDone" /\ PositivePage(comp_call)) =>
        LET r == comp_res
            w == PageWidth(comp_call)
            h == PageHeight(comp_call)
        IN  IF WiderPage(comp_call)
            THEN /\ r.resized.height = target_height
                 /\ r.resized.width = NearestDiv(w * target_height, h)
                 /\ r.offset = (r.resized.width - target_width) \div 2
            ELSE /\ r.resized.width = target_width
                 /\ r.resized.height = NearestDiv(h * target_width, w)
                 /\ r.offset = (r.resized.height - target_height) \div 2

\* C10, amended: the wider branch is taken exactly when the page is
\* relatively wider than the target; the scaled side is the proportional
\* value truncated to an integer, not rounded, and one less than that where
\* the proportional value is itself an integer and the float product falls
\* just below it; the crop offset is half the excess, truncated, and not
\* negative.
C10_Truncated ==
    (pc = "CompDone" /\ PositivePage(comp_call)) =>
        LET r == comp_res
            w == PageWidth(comp_call)
            h == PageHeight(comp_call)
        IN  IF WiderPage(comp_call)
            THEN /\ r.branch = "wider"
                 /\ r.resized.height = target_height
                 /\ TruncatedQuotient(r.resized.width, w * target_height, h)
                 /\ r.offset = (r.resized.width - target_width) \div 2
                 /\ r.offset >= 0
            ELSE /\ r.branch = "taller"
                 /\ r.resized.width = target_width
                 /\ TruncatedQuotient(r.resized.height, h * target_width, w)
                 /\ r.offset = (r.resized.height - target_height) \div 2
                 /\ r.offset >= 0

\* A 22 x 15 page: 22 / 15 * 300 is 440, the float product is just below it
\* and the width is 439.
C10_Witness ==
    /\ pc = "CompDone"
    /\ PageWidth(comp_call) = 22 /\ PageHeight(comp_call) = 15
    /\ comp_res.branch = "wider"
    /\ comp_res.resized.width = 439
    /\ comp_res.offset = 19
====
